---- MODULE Spec2Model ----
(***************************************************************************)
(* Model of the text segmentation engine of Text-to-Slides                 *)
(* (utils/textUtils.ts): smartSplit, the splitters it calls and the        *)
(* helpers around it, and of the recent-projects list of StorageService.   *)
(*                                                                         *)
(* A string is a sequence of one-character strings.  Sizes that the code   *)
(* computes as fractions (idealChunkSize * 0.3, * 1.5, * 1.2, * 0.4) are   *)
(* carried in tenths, so "length <= maxChunkSize" is modelled as           *)
(* 10 * length <= maxChunkSize-in-tenths; on the integer lengths involved  *)
(* this agrees with the double arithmetic of the code.                     *)
(***************************************************************************)
EXTENDS Integers, Sequences, FiniteSets, TLC

VARIABLES
    text,          \* the text handed to the function under call
    targetSlides,  \* the targetSlides argument
    result,        \* what the call returned (<<>> before the call)
    pc,            \* "call" before the function has run, "done" after
    chunkOptions,  \* the options handed to splitIntoAdvancedChunks
    forceStart,    \* the loop variable start of forceSplitByLength
    currentProject,  \* the id of the project stored under CURRENT_PROJECT
    recentProjects,  \* the ids of the list stored under RECENT_PROJECTS
    lastCall       \* how the latest call of the storage service ended

vars == <<text, targetSlides, result, pc, chunkOptions, forceStart,
          currentProject, recentProjects, lastCall>>

\* the variables of the storage service
storeVars == <<currentProject, recentProjects, lastCall>>

\* no project: what a storage key that was never written reads as (the
\* projects are numbered from 1)
NoProject == 0

\* the storage before the first call of the storage service
StoreUntouched ==
    /\ currentProject = NoProject
    /\ recentProjects = <<>>
    /\ lastCall = "none"

----------------------------------------------------------------------------
(* Arithmetic helpers: Math.min, Math.max, Math.ceil(a / b) for b > 0.     *)

Min2(a, b) == IF a <= b THEN a ELSE b

Max2(a, b) == IF a >= b THEN a ELSE b

CeilDiv(a, b) == (a + b - 1) \div b

----------------------------------------------------------------------------
(* Character classes of the regular expressions and of String.trim.        *)

NL == "\n"

\* \s of the regular expressions, and the characters String.trim removes
IsSpace(c) == c \in {" ", NL, "\t"}

\* [.!?] of sentenceRegex
IsTerminator(c) == c \in {".", "!", "?"}

\* the boundary characters of forceSplitByLength
IsBoundary(c) == c \in {" ", ".", ",", ";", ":", NL}

IsDigit(c) == c \in {"0", "1", "2", "3", "4", "5", "6", "7", "8", "9"}

\* [-*...] of the list rule, with the bytes the source file holds
IsBullet(c) == c \in {"-", "*", "â", "€", "¢"}

----------------------------------------------------------------------------
(* String helpers.                                                         *)

\* a string of n copies of character c
Run(c, n) == [i \in 1..n |-> c]

\* the concatenation of a list of strings
RECURSIVE Flatten(_)
Flatten(ss) == IF ss = <<>> THEN <<>> ELSE Head(ss) \o Flatten(Tail(ss))

\* String.prototype.trim
Trim(s) ==
    IF \A i \in 1..Len(s) : IsSpace(s[i]) THEN <<>>
    ELSE LET first == CHOOSE i \in 1..Len(s) :
                          ~IsSpace(s[i]) /\ \A j \in 1..(i-1) : IsSpace(s[j])
             last  == CHOOSE i \in 1..Len(s) :
                          ~IsSpace(s[i]) /\ \A j \in (i+1)..Len(s) : IsSpace(s[j])
         IN  SubSeq(s, first, last)

\* s.replace(/\s+/g, ' '): every maximal run of whitespace becomes one space
CollapseWhitespace(s) ==
    LET marked == [i \in 1..Len(s) |->
                      IF ~IsSpace(s[i]) THEN s[i]
                      ELSE IF i > 1 /\ IsSpace(s[i-1]) THEN "" ELSE " "]
    IN  SelectSeq(marked, LAMBDA c : c # "")

\* s with every whitespace character removed
StripWhitespace(s) == SelectSeq(s, LAMBDA c : ~IsSpace(c))

\* String.prototype.includes
Includes(s, pat) ==
    \E i \in 1..(Len(s) - Len(pat) + 1) :
        \A k \in 1..Len(pat) : s[i + k - 1] = pat[k]

\* least index i >= p with s[i] = c, or Len(s) + 1 when there is none
IndexOfChar(s, c, p) ==
    CHOOSE i \in p..(Len(s) + 1) :
        /\ (i = Len(s) + 1 \/ s[i] = c)
        /\ \A j \in p..(i-1) : s[j] # c

\* s.split(c) for a one-character separator c
RECURSIVE SplitOnChar(_, _)
SplitOnChar(s, c) ==
    LET i == IndexOfChar(s, c, 1)
    IN  IF i > Len(s) THEN <<s>>
        ELSE <<SubSeq(s, 1, i-1)>> \o SplitOnChar(SubSeq(s, i+1, Len(s)), c)

\* s.split('\n\n')
RECURSIVE SplitOnBlankLine(_)
SplitOnBlankLine(s) ==
    IF \E i \in 1..(Len(s) - 1) : s[i] = NL /\ s[i+1] = NL
    THEN LET i == CHOOSE k \in 1..(Len(s) - 1) :
                      /\ s[k] = NL /\ s[k+1] = NL
                      /\ \A j \in 1..(k-1) : ~(s[j] = NL /\ s[j+1] = NL)
         IN  <<SubSeq(s, 1, i-1)>> \o SplitOnBlankLine(SubSeq(s, i+2, Len(s)))
    ELSE <<s>>

\* s.split(/\s+/): the pieces between maximal runs of whitespace, with an
\* empty first piece when s starts with whitespace and an empty last piece
\* when it ends with whitespace.  Every index where a piece starts is
\* marked with that piece, the other indexes with <<"">>.
SplitOnWhitespace(s) ==
    LET pieceAt(i) ==
            LET e == CHOOSE k \in i..(Len(s) + 1) :
                         /\ (k = Len(s) + 1 \/ IsSpace(s[k]))
                         /\ \A j \in i..(k-1) : ~IsSpace(s[j])
            IN  SubSeq(s, i, e - 1)
        marked == [i \in 1..Len(s) |->
                      IF ~IsSpace(s[i]) /\ (i = 1 \/ IsSpace(s[i-1]))
                      THEN pieceAt(i)
                      ELSE <<"">>]
        pieces == SelectSeq(marked, LAMBDA w : w # <<"">>)
    IN  IF s = <<>> THEN << <<>> >>
        ELSE (IF IsSpace(s[1]) THEN << <<>> >> ELSE <<>>)
                 \o pieces
                 \o (IF IsSpace(s[Len(s)]) THEN << <<>> >> ELSE <<>>)

----------------------------------------------------------------------------
(* splitIntoSentences: text.match(/[^.!?]+[.!?]+/g), each match trimmed.   *)

\* least index i >= p whose character is (want = TRUE) or is not
\* (want = FALSE) a sentence terminator, or Len(s) + 1 when there is none
NextTerminator(s, p, want) ==
    CHOOSE i \in p..(Len(s) + 1) :
        /\ (i = Len(s) + 1 \/ IsTerminator(s[i]) = want)
        /\ \A j \in p..(i-1) : IsTerminator(s[j]) # want

\* the matches of sentenceRegex in s from index p on: a maximal run of
\* non-terminators followed by a maximal run of terminators; a trailing
\* run of non-terminators with no terminator after it matches nothing
RECURSIVE SentenceMatches(_, _)
SentenceMatches(s, p) ==
    LET a == NextTerminator(s, p, FALSE)
        b == NextTerminator(s, a, TRUE)
        c == NextTerminator(s, b, FALSE)
    IN  IF a > Len(s) \/ b > Len(s) THEN <<>>
        ELSE <<SubSeq(s, a, c-1)>> \o SentenceMatches(s, c)

splitIntoSentences(s) ==
    LET sentences == SentenceMatches(s, 1)
    IN  IF sentences # <<>>
        THEN SelectSeq([i \in 1..Len(sentences) |-> Trim(sentences[i])],
                       LAMBDA x : Len(x) > 0)
        ELSE <<Trim(s)>>

----------------------------------------------------------------------------
(* splitBySentences and splitByWords: greedy first-fit packing.  maxSize   *)
(* and minSize are in tenths of a character.                               *)

\* the finished chunk put in front of the list instead of at its end
PushIfLongEnough_InFront(chunks, currentChunk, minSize) ==
    IF currentChunk # <<>> /\ 10 * Len(currentChunk) >= minSize
    THEN <<Trim(currentChunk)>> \o chunks
    ELSE chunks

\* the chunk list after the closing "if (currentChunk && length >= minSize)"
PushIfLongEnough(chunks, currentChunk, minSize) ==
    IF currentChunk # <<>> /\ 10 * Len(currentChunk) >= minSize
    THEN Append(chunks, Trim(currentChunk))
    ELSE chunks

\* the for loop of splitBySentences from sentence k on
RECURSIVE PackSentences(_, _, _, _, _, _)
PackSentences(sentences, k, chunks, currentChunk, maxSize, minSize) ==
    IF k > Len(sentences)
    THEN PushIfLongEnough(chunks, currentChunk, minSize)
    ELSE LET trimmedSentence == Trim(sentences[k])
         IN  IF 10 * (Len(currentChunk) + Len(trimmedSentence)) <= maxSize
             THEN PackSentences(sentences, k+1, chunks,
                      (IF currentChunk # <<>> THEN currentChunk \o <<" ">>
                                              ELSE currentChunk)
                          \o trimmedSentence,
                      maxSize, minSize)
             ELSE PackSentences(sentences, k+1,
                      PushIfLongEnough(chunks, currentChunk, minSize),
                      trimmedSentence, maxSize, minSize)

splitBySentences(s, maxSize, minSize) ==
    PackSentences(splitIntoSentences(s), 1, <<>>, <<>>, maxSize, minSize)

\* WordStep with a fit test that leaves out the joining space
WordStep_NoSpace(st, word, maxSize, minSize) ==
    IF 10 * (Len(st.currentChunk) + Len(word)) <= maxSize
    THEN [chunks |-> st.chunks,
          currentChunk |-> (IF st.currentChunk # <<>>
                            THEN st.currentChunk \o <<" ">>
                            ELSE st.currentChunk) \o word]
    ELSE [chunks |-> PushIfLongEnough(st.chunks, st.currentChunk, minSize),
          currentChunk |-> word]

\* one iteration of the for loop of splitByWords; st holds the loop's
\* variables chunks and currentChunk
WordStep(st, word, maxSize, minSize) ==
    IF 10 * (Len(st.currentChunk) + Len(word) + 1) <= maxSize
    THEN [chunks |-> st.chunks,
          currentChunk |-> (IF st.currentChunk # <<>>
                            THEN st.currentChunk \o <<" ">>
                            ELSE st.currentChunk) \o word]
    ELSE [chunks |-> PushIfLongEnough(st.chunks, st.currentChunk, minSize),
          currentChunk |-> word]

\* the for loop of splitByWords over words lo..hi, in order, from the loop
\* variables st.  The range is halved rather than walked word by word, and
\* the left half is evaluated (by the test on it) before the right half is
\* entered, which keeps the nesting of the evaluation shallow for texts of
\* many words.
RECURSIVE PackWords(_, _, _, _, _, _)
PackWords(words, lo, hi, st, maxSize, minSize) ==
    IF lo > hi THEN st
    ELSE IF lo = hi THEN WordStep(st, words[lo], maxSize, minSize)
    ELSE LET mid  == (lo + hi) \div 2
             left == PackWords(words, lo, mid, st, maxSize, minSize)
         IN  IF Len(left.chunks) >= 0
             THEN PackWords(words, mid + 1, hi, left, maxSize, minSize)
             ELSE left

splitByWords(s, maxSize, minSize) ==
    LET words == SplitOnWhitespace(s)
        last  == PackWords(words, 1, Len(words),
                           [chunks |-> <<>>, currentChunk |-> <<>>],
                           maxSize, minSize)
    IN  PushIfLongEnough(last.chunks, last.currentChunk, minSize)

----------------------------------------------------------------------------
(* splitIntoAdvancedChunks.  options is the record the caller resolved:    *)
(* preserveParagraphs, respectSentences, respectWords, and minChunkSize    *)
(* and maxChunkSize in tenths of a character.                              *)

\* the paragraph split by words even when respectSentences is set
SplitParagraph_WordsFirst(trimmedParagraph, options) ==
    IF options.respectWords
           /\ 10 * Len(trimmedParagraph) > options.maxChunkSize
    THEN splitByWords(trimmedParagraph, options.maxChunkSize,
                      options.minChunkSize)
    ELSE <<trimmedParagraph>>

\* the chunks pushed for a paragraph that does not fit the running chunk
SplitParagraph(trimmedParagraph, options) ==
    IF options.respectSentences
           /\ 10 * Len(trimmedParagraph) > options.maxChunkSize
    THEN splitBySentences(trimmedParagraph, options.maxChunkSize,
                          options.minChunkSize)
    ELSE IF options.respectWords
                /\ 10 * Len(trimmedParagraph) > options.maxChunkSize
    THEN splitByWords(trimmedParagraph, options.maxChunkSize,
                      options.minChunkSize)
    ELSE <<trimmedParagraph>>

\* the for loop over paragraphs from paragraph k on, then the last flush
RECURSIVE PackParagraphs(_, _, _, _, _, _)
PackParagraphs(paragraphs, k, chunks, currentChunk, currentLength, options) ==
    IF k > Len(paragraphs)
    THEN IF Trim(currentChunk) # <<>>
         THEN Append(chunks, Trim(currentChunk))
         ELSE chunks
    ELSE LET trimmedParagraph == Trim(paragraphs[k])
         IN  IF 10 * (currentLength + Len(trimmedParagraph))
                    <= options.maxChunkSize
             THEN PackParagraphs(paragraphs, k+1, chunks,
                      (IF currentChunk # <<>> THEN currentChunk \o <<NL, NL>>
                                              ELSE currentChunk)
                          \o trimmedParagraph,
                      currentLength + Len(trimmedParagraph), options)
             ELSE PackParagraphs(paragraphs, k+1,
                      (IF currentChunk # <<>>
                       THEN Append(chunks, Trim(currentChunk))
                       ELSE chunks)
                          \o SplitParagraph(trimmedParagraph, options),
                      <<>>, 0, options)

\* the defaults of the options of splitIntoAdvancedChunks, with the
\* default maxChars of 200 as maxChunkSize
DefaultOptions ==
    [preserveParagraphs |-> TRUE,
     respectSentences   |-> TRUE,
     respectWords       |-> TRUE,
     minChunkSize       |-> 500,
     maxChunkSize       |-> 2000]

\* splitIntoAdvancedChunks without the final filter of line 299
splitIntoAdvancedChunks_NoFilter(s, options) ==
    LET cleanText  == Trim(CollapseWhitespace(s))
        paragraphs == IF options.preserveParagraphs
                      THEN SelectSeq(SplitOnBlankLine(cleanText),
                                     LAMBDA p : Len(Trim(p)) > 0)
                      ELSE <<cleanText>>
    IN  IF 10 * Len(cleanText) <= options.maxChunkSize
        THEN <<cleanText>>
        ELSE PackParagraphs(paragraphs, 1, <<>>, <<>>, 0, options)

\* splitIntoAdvancedChunks with the final filter applied to the short
\* input as well
splitIntoAdvancedChunks_FilterShort(s, options) ==
    LET cleanText  == Trim(CollapseWhitespace(s))
        paragraphs == IF options.preserveParagraphs
                      THEN SelectSeq(SplitOnBlankLine(cleanText),
                                     LAMBDA p : Len(Trim(p)) > 0)
                      ELSE <<cleanText>>
    IN  SelectSeq(IF 10 * Len(cleanText) <= options.maxChunkSize
                  THEN <<cleanText>>
                  ELSE PackParagraphs(paragraphs, 1, <<>>, <<>>, 0, options),
                  LAMBDA chunk : 10 * Len(chunk) >= options.minChunkSize)

splitIntoAdvancedChunks(s, options) ==
    LET cleanText  == Trim(CollapseWhitespace(s))
        paragraphs == IF options.preserveParagraphs
                      THEN SelectSeq(SplitOnBlankLine(cleanText),
                                     LAMBDA p : Len(Trim(p)) > 0)
                      ELSE <<cleanText>>
    IN  IF 10 * Len(cleanText) <= options.maxChunkSize
        THEN <<cleanText>>
        ELSE SelectSeq(PackParagraphs(paragraphs, 1, <<>>, <<>>, 0, options),
                       LAMBDA chunk : 10 * Len(chunk) >= options.minChunkSize)

----------------------------------------------------------------------------
(* forceSplitByLength: the fallback splitter.                              *)

\* how far back from a window end the boundary search looks
BoundaryLookback == 40

\* WindowEnd breaking after the boundary character of lowest index
WindowEnd_FirstBoundary(trimmed, start, idealSize) ==
    LET end == Min2(start + idealSize, Len(trimmed))
        lo  == Max2(start, end - BoundaryLookback)
        hit == {i \in lo..(end - 1) : IsBoundary(trimmed[i + 1])}
        breakPoint == IF hit = {} THEN end
                      ELSE 1 + CHOOSE i \in hit : \A j \in hit : i <= j
    IN  IF end < Len(trimmed) THEN Max2(breakPoint, start + 1) ELSE end

\* WindowEnd breaking before the boundary character, without the floor of
\* start + 1
WindowEnd_BeforeBoundary(trimmed, start, idealSize) ==
    LET end == Min2(start + idealSize, Len(trimmed))
        lo  == Max2(start, end - BoundaryLookback)
        hit == {i \in lo..(end - 1) : IsBoundary(trimmed[i + 1])}
        breakPoint == IF hit = {} THEN end
                      ELSE CHOOSE i \in hit : \A j \in hit : j <= i
    IN  IF end < Len(trimmed) THEN breakPoint ELSE end

\* WindowEnd searching forward from the raw end point for the boundary
WindowEnd_LookAhead(trimmed, start, idealSize) ==
    LET end == Min2(start + idealSize, Len(trimmed))
        hi  == Min2(Len(trimmed), end + BoundaryLookback)
        hit == {i \in end..(hi - 1) : IsBoundary(trimmed[i + 1])}
        breakPoint == IF hit = {} THEN end
                      ELSE 1 + CHOOSE i \in hit : \A j \in hit : i <= j
    IN  IF end < Len(trimmed) THEN Max2(breakPoint, start + 1) ELSE end

\* the end of the window that starts at index start (0-based, as in the
\* code) of the trimmed text: the raw end, moved back to just after the
\* nearest boundary character when the raw end is inside the text
WindowEnd(trimmed, start, idealSize) ==
    LET end == Min2(start + idealSize, Len(trimmed))
        lo  == Max2(start, end - BoundaryLookback)
        hit == {i \in lo..(end - 1) : IsBoundary(trimmed[i + 1])}
        breakPoint == IF hit = {} THEN end
                      ELSE 1 + CHOOSE i \in hit : \A j \in hit : j <= i
    IN  IF end < Len(trimmed) THEN Max2(breakPoint, start + 1) ELSE end

\* the while loop going on one character after the break
RECURSIVE ForceWindows_SkipOne(_, _, _)
ForceWindows_SkipOne(trimmed, start, idealSize) ==
    IF start >= Len(trimmed) THEN <<>>
    ELSE LET end   == WindowEnd(trimmed, start, idealSize)
             chunk == Trim(SubSeq(trimmed, start + 1, end))
         IN  (IF Len(chunk) > 0 THEN <<chunk>> ELSE <<>>)
                 \o ForceWindows_SkipOne(trimmed, end + 1, idealSize)

\* the while loop of forceSplitByLength from index start on
RECURSIVE ForceWindows(_, _, _)
ForceWindows(trimmed, start, idealSize) ==
    IF start >= Len(trimmed) THEN <<>>
    ELSE LET end   == WindowEnd(trimmed, start, idealSize)
             chunk == Trim(SubSeq(trimmed, start + 1, end))
         IN  (IF Len(chunk) > 0 THEN <<chunk>> ELSE <<>>)
                 \o ForceWindows(trimmed, end, idealSize)

\* the text cut as it was passed, without the trim
forceSplitByLength_NoTrim(s, slideTarget) ==
    LET trimmed   == s
        slides    == Max2(1, slideTarget)
        idealSize == Max2(1, CeilDiv(Len(trimmed), slides))
        windows   == ForceWindows(trimmed, 0, idealSize)
    IN  IF trimmed = <<>> THEN <<>>
        ELSE IF Len(windows) > 0 THEN windows ELSE <<trimmed>>

forceSplitByLength(s, slideTarget) ==
    LET trimmed   == Trim(s)
        slides    == Max2(1, slideTarget)
        idealSize == Max2(1, CeilDiv(Len(trimmed), slides))
        windows   == ForceWindows(trimmed, 0, idealSize)
    IN  IF trimmed = <<>> THEN <<>>
        ELSE IF Len(windows) > 0 THEN windows ELSE <<trimmed>>

----------------------------------------------------------------------------
(* detectContentType: first matching rule wins.                            *)

\* /^[\s]*[-*...]\s/.test(line)
IsBulletLine(line) ==
    \E k \in 1..(Len(line) - 1) :
        /\ \A j \in 1..(k-1) : IsSpace(line[j])
        /\ IsBullet(line[k])
        /\ IsSpace(line[k+1])

\* /^\d+\.\s/.test(line)
IsNumberedLine(line) ==
    \E k \in 1..(Len(line) - 2) :
        /\ \A j \in 1..k : IsDigit(line[j])
        /\ line[k+1] = "."
        /\ IsSpace(line[k+2])

\* the technical rule tried before the quote rule
detectContentType_TechnicalFirst(s) ==
    LET lines     == SplitOnChar(s, NL)
        sentences == splitIntoSentences(s)
    IN  IF \/ \E k \in 1..Len(lines) : IsBulletLine(lines[k])
           \/ \E k \in 1..Len(lines) : IsNumberedLine(lines[k])
        THEN "list"
        ELSE IF \/ Includes(s, <<"f", "u", "n", "c", "t", "i", "o", "n">>)
                \/ Includes(s, <<"c", "l", "a", "s", "s">>)
                \/ Includes(s, <<"A", "P", "I">>)
                \/ Includes(s, <<"c", "o", "d", "e">>)
        THEN "technical"
        ELSE IF Includes(s, <<"\"">>) /\ Len(sentences) <= 3
        THEN "quote"
        ELSE IF Len(sentences) > 5 /\ Includes(s, <<".">>)
        THEN "story"
        ELSE "general"

detectContentType(s) ==
    LET lines     == SplitOnChar(s, NL)
        sentences == splitIntoSentences(s)
    IN  IF \/ \E k \in 1..Len(lines) : IsBulletLine(lines[k])
           \/ \E k \in 1..Len(lines) : IsNumberedLine(lines[k])
        THEN "list"
        ELSE IF Includes(s, <<"\"">>) /\ Len(sentences) <= 3
        THEN "quote"
        ELSE IF \/ Includes(s, <<"f", "u", "n", "c", "t", "i", "o", "n">>)
                \/ Includes(s, <<"c", "l", "a", "s", "s">>)
                \/ Includes(s, <<"A", "P", "I">>)
                \/ Includes(s, <<"c", "o", "d", "e">>)
        THEN "technical"
        ELSE IF Len(sentences) > 5 /\ Includes(s, <<".">>)
        THEN "story"
        ELSE "general"

----------------------------------------------------------------------------
(* smartSplit, for targetSlides >= 1.                                      *)

\* the placeholder returned for empty input
NoContentProvided ==
    <<"N", "o", " ", "c", "o", "n", "t", "e", "n", "t", " ",
      "p", "r", "o", "v", "i", "d", "e", "d">>

\* below this trimmed length the text is returned as it is
VeryShortLength == 20

\* below this trimmed length the target is clamped to one slide
ShortLength == 50

\* the target left as the caller gave it
ClampedTarget_NoClamp(textLength, slideTarget) == slideTarget

\* targetSlides after the clamp for short text
ClampedTarget(textLength, slideTarget) ==
    IF textLength < ShortLength /\ slideTarget > 1 THEN 1 ELSE slideTarget

\* the options record with a maxChunkSize of half the ideal chunk size
SplitOptions_HalfMax(contentType, idealChunkSize, textLength) ==
    LET options == [preserveParagraphs |-> TRUE,
                    respectSentences   |-> TRUE,
                    respectWords       |-> TRUE,
                    minChunkSize       |-> Min2(100, 3 * idealChunkSize),
                    maxChunkSize       |-> 5 * idealChunkSize]
    IN  CASE contentType = "list" ->
                 [options EXCEPT !.respectSentences = FALSE]
          [] contentType = "story" ->
                 [options EXCEPT !.respectWords = FALSE]
          [] contentType = "technical" ->
                 [options EXCEPT !.minChunkSize =
                                     Max2(500, 4 * idealChunkSize)]
          [] OTHER -> options

\* the options record after the switch on the content type
SplitOptions(contentType, idealChunkSize, textLength) ==
    LET options == [preserveParagraphs |-> TRUE,
                    respectSentences   |-> TRUE,
                    respectWords       |-> TRUE,
                    minChunkSize       |-> Min2(100, 3 * idealChunkSize),
                    maxChunkSize       |-> Min2(15 * idealChunkSize,
                                                10 * textLength)]
    IN  CASE contentType = "list" ->
                 [options EXCEPT !.preserveParagraphs = TRUE,
                                 !.respectSentences = FALSE]
          [] contentType = "story" ->
                 [options EXCEPT !.respectSentences = TRUE,
                                 !.respectWords = FALSE]
          [] contentType = "technical" ->
                 [options EXCEPT !.respectWords = TRUE,
                                 !.minChunkSize =
                                     Max2(500, 4 * idealChunkSize)]
          [] contentType = "quote" ->
                 [options EXCEPT !.preserveParagraphs = TRUE,
                                 !.respectSentences = TRUE,
                                 !.maxChunkSize = 12 * idealChunkSize]
          [] OTHER -> options

\* the chunks the structural splitter returns inside smartSplit
StructuralChunks(trimmedText, slideTarget) ==
    LET textLength     == Len(trimmedText)
        idealChunkSize == CeilDiv(textLength, slideTarget)
    IN  splitIntoAdvancedChunks(trimmedText,
            SplitOptions(detectContentType(trimmedText), idealChunkSize,
                         textLength))

\* SourceChunks without the fall-back to the whole text
SourceChunks_NoFallback(chunks, trimmedText) == chunks

\* sourceChunks: the chunks, or the whole trimmed text when there are none
SourceChunks(chunks, trimmedText) ==
    IF Len(chunks) > 0 THEN chunks ELSE <<trimmedText>>

\* the quota rounded down instead of up
ProjectedSlides_RoundedDown(chunkLength, desiredChunkSize) ==
    Max2(1, chunkLength \div desiredChunkSize)

\* a quota of one slide whatever the length of the chunk
ProjectedSlides_One(chunkLength, desiredChunkSize) == 1

\* projectedSlides: the quota of fallback slides of one source chunk
ProjectedSlides(chunkLength, desiredChunkSize) ==
    Max2(1, CeilDiv(chunkLength, desiredChunkSize))

\* the forced list built from sourceChunks k.. when the chunker undershoots
RECURSIVE ForceEach(_, _, _)
ForceEach(sourceChunks, k, desiredChunkSize) ==
    IF k > Len(sourceChunks) THEN <<>>
    ELSE forceSplitByLength(sourceChunks[k],
             ProjectedSlides(Len(sourceChunks[k]), desiredChunkSize))
             \o ForceEach(sourceChunks, k+1, desiredChunkSize)

\* whether smartSplit takes the undershoot correction for this text
Undershoots(trimmedText, slideTarget) ==
    LET target == ClampedTarget(Len(trimmedText), slideTarget)
    IN  Len(StructuralChunks(trimmedText, target)) < target

\* smartSplit from the clamp of the target on, for text of 20 characters
\* or more
SplitLongText(trimmedText, slideTarget) ==
    LET textLength  == Len(trimmedText)
        target      == ClampedTarget(textLength, slideTarget)
        chunks      == StructuralChunks(trimmedText, target)
        desiredChunkSize == Max2(1, CeilDiv(textLength, target))
    IN  IF Len(chunks) < target
        THEN SelectSeq(ForceEach(SourceChunks(chunks, trimmedText), 1,
                                 desiredChunkSize),
                       LAMBDA chunk : Len(chunk) > 0)
        ELSE chunks

\* the floor for very short text set at half its value
IsVeryShort_Low(textLength) == 2 * textLength < VeryShortLength

\* textLength < 20
IsVeryShort(textLength) == textLength < VeryShortLength

\* smartSplit after the guard for empty text
SplitNonEmptyText(trimmedText, slideTarget) ==
    IF IsVeryShort(Len(trimmedText)) THEN <<trimmedText>>
    ELSE SplitLongText(trimmedText, slideTarget)

\* smartSplit without the guard for empty text
smartSplit_NoGuard(s, slideTarget) ==
    SplitNonEmptyText(Trim(s), slideTarget)

smartSplit(s, slideTarget) ==
    IF s = <<>> \/ Len(Trim(s)) = 0 THEN <<NoContentProvided>>
    ELSE SplitNonEmptyText(Trim(s), slideTarget)

----------------------------------------------------------------------------
(* Input texts.  A text is a lead followed by up to MaxUnits units; a unit *)
(* is a word of one letter repeated, followed by an ending.  Each unit has *)
(* its own letter, so a fragment shows which unit its characters are from. *)

MaxUnits == 2

MaxTarget == 4

Letters == <<"x", "y", "z", "w", "v">>

WordLengths == {1, 9, 24, 40}

Endings == {<<".">>, <<".", " ">>, <<" ">>, <<NL, NL>>}

\* a lead decides the content type: none, leading whitespace, a quote, a
\* bullet, a numbered item, a technical word, six short sentences
Leads ==
    { <<>>,
      <<" ", NL>>,
      <<"\"">>,
      <<"-", " ">>,
      <<"1", ".", " ">>,
      <<"c", "o", "d", "e", " ">>,
      <<"p", ".", " ", "q", ".", " ", "r", "!", " ",
        "s", ".", " ", "t", "?", " ", "u", ".", " ">> }

RECURSIVE UnitTexts(_)
UnitTexts(k) ==
    IF k = 0 THEN {<<>>}
    ELSE {t \o Run(Letters[k], n) \o e :
              t \in UnitTexts(k-1), n \in WordLengths, e \in Endings}

InputTexts ==
    {lead \o body :
         lead \in Leads, body \in UNION {UnitTexts(k) : k \in 0..MaxUnits}}

Init ==
    /\ text \in InputTexts
    /\ targetSlides \in 1..MaxTarget
    /\ result = <<>>
    /\ pc = "call"
    /\ chunkOptions = DefaultOptions
    /\ StoreUntouched
    /\ forceStart = 0

\* the call smartSplit(text, targetSlides)
SmartSplit ==
    /\ pc = "call"
    /\ result' = smartSplit(text, targetSlides)
    /\ pc' = "done"
    /\ UNCHANGED <<text, targetSlides, chunkOptions, forceStart, storeVars>>

Next == SmartSplit

Spec == Init /\ [][Next]_vars

----------------------------------------------------------------------------
(* Unbroken texts: one run of a letter, no whitespace and no punctuation,  *)
(* of ShortLength to MaxRunLength characters, with every target up to the  *)
(* length of the text.                                                     *)

MaxRunLength == 54

InitRuns ==
    /\ text \in {Run("x", n) : n \in ShortLength..MaxRunLength}
    /\ targetSlides \in 1..MaxRunLength
    /\ targetSlides <= Len(text)
    /\ result = <<>>
    /\ pc = "call"
    /\ chunkOptions = DefaultOptions
    /\ StoreUntouched
    /\ forceStart = 0

SpecRuns == InitRuns /\ [][Next]_vars

----------------------------------------------------------------------------
(* Run-on sentences: words of letters separated by single spaces, with no  *)
(* punctuation, MinRunOnLength characters or a few more.  The words are    *)
(* alternately w1 and w2 letters long (the last one may be shorter); the   *)
(* first word may be one that makes the text technical or a list.          *)

MinRunOnLength == 1000

MaxExtraLength == 12

MaxWordLength == 4

\* character i of the pattern: w1 letters, a space, w2 letters, a space
RunOnChar(i, w1, w2) ==
    LET r == (i - 1) % (w1 + w2 + 2)
    IN  IF r < w1 THEN "x"
        ELSE IF r = w1 THEN " "
        ELSE IF r < w1 + 1 + w2 THEN "y"
        ELSE " "

RunOnLeads == { <<>>, <<"c", "o", "d", "e", " ">>, <<"â", " ">> }

InitRunOn ==
    /\ \E lead \in RunOnLeads :
       \E w1 \in 1..MaxWordLength, w2 \in 1..MaxWordLength :
       \E n \in MinRunOnLength..(MinRunOnLength + MaxExtraLength) :
           /\ RunOnChar(n, w1, w2) # " "
           /\ text = lead \o [i \in 1..n |-> RunOnChar(i, w1, w2)]
    /\ targetSlides = 5
    /\ result = <<>>
    /\ pc = "call"
    /\ chunkOptions = DefaultOptions
    /\ StoreUntouched
    /\ forceStart = 0

SpecRunOn == InitRunOn /\ [][Next]_vars

----------------------------------------------------------------------------
(* Narrative texts: up to MaxSentences sentences separated by single       *)
(* spaces, each of one or two words of letters and a closing period.  The  *)
(* odd sentences and the even sentences have their own word length and     *)
(* word count.                                                             *)

MaxSentences == 12

NarrativeWordLengths == {1, 3, 6}

\* a sentence of one or two words of n letters c, closed by a period
Sentence(c, n, words) ==
    (IF words = 2 THEN Run(c, n) \o <<" ">> ELSE <<>>) \o Run(c, n) \o <<".">>

\* k sentences joined by single spaces
RECURSIVE NarrativeText(_, _, _, _, _)
NarrativeText(k, a, b, wa, wb) ==
    IF k = 0 THEN <<>>
    ELSE (IF k = 1 THEN <<>>
          ELSE NarrativeText(k - 1, a, b, wa, wb) \o <<" ">>)
             \o (IF k % 2 = 1 THEN Sentence("x", a, wa)
                               ELSE Sentence("y", b, wb))

InitNarrative ==
    /\ \E k \in 1..MaxSentences :
       \E a \in NarrativeWordLengths, b \in NarrativeWordLengths :
       \E wa \in 1..2, wb \in 1..2 :
           text = NarrativeText(k, a, b, wa, wb)
    /\ targetSlides \in 1..MaxTarget
    /\ result = <<>>
    /\ pc = "call"
    /\ chunkOptions = DefaultOptions
    /\ StoreUntouched
    /\ forceStart = 0

SpecNarrative == InitNarrative /\ [][Next]_vars

----------------------------------------------------------------------------
(* Properties of smartSplit.                                               *)

\* the trimmed length of the input text
TrimmedLength == Len(Trim(text))

\* the text is empty or holds whitespace only
IsBlank(s) == \A i \in 1..Len(s) : IsSpace(s[i])

\* r is s with only its leading and trailing whitespace removed
IsTrimOf(r, s) ==
    \E a \in 1..Len(s) : \E b \in a..Len(s) :
        /\ r = SubSeq(s, a, b)
        /\ ~IsSpace(s[a]) /\ ~IsSpace(s[b])
        /\ \A j \in 1..(a-1) : IsSpace(s[j])
        /\ \A j \in (b+1)..Len(s) : IsSpace(s[j])

\* C1: for every text and every target >= 1, smartSplit returns a list
\* with at least one element, and every element is a non-empty string.
C1_NonEmptyResult ==
    pc = "done" =>
        /\ Len(result) >= 1
        /\ \A i \in 1..Len(result) : Len(result[i]) >= 1

\* the structural splitter dropped every chunk and the whole text was
\* handed to the fallback splitter
C1_Witness ==
    /\ pc = "done"
    /\ TrimmedLength >= ShortLength
    /\ StructuralChunks(Trim(text), targetSlides) = <<>>
    /\ Len(result) >= 1

\* C5: a text whose trimmed length is in 1..19 comes back as the one
\* fragment that is the text without its leading and trailing whitespace,
\* whatever the target.
C5_ShortTextFloor ==
    (pc = "done" /\ TrimmedLength >= 1 /\ TrimmedLength <= 19) =>
        /\ Len(result) = 1
        /\ IsTrimOf(result[1], text)

\* a text of 10 to 19 characters with whitespace around it and a blank
\* line inside it, target > 1
C5_Witness ==
    /\ pc = "done"
    /\ TrimmedLength >= 10 /\ TrimmedLength <= 19
    /\ Len(text) > TrimmedLength
    /\ Includes(Trim(text), <<NL, NL>>)
    /\ targetSlides > 1
    /\ result = <<Trim(text)>>

C7_EmptyTextSentinel ==
    (pc = "done" /\ IsBlank(text)) => result = <<NoContentProvided>>

\* a text of whitespace only, asked for several slides
C7_Witness ==
    /\ pc = "done"
    /\ text # <<>>
    /\ IsBlank(text)
    /\ targetSlides > 1
    /\ result = <<NoContentProvided>>

\* the number of non-whitespace characters of the input text
NonSpaceCount == Len(StripWhitespace(text))

\* C2: for a text of trimmed length >= 50 and a target n between 1 and the
\* number of non-whitespace characters, smartSplit returns at least n
\* fragments.
C2_AtLeastTarget ==
    (pc = "done" /\ TrimmedLength >= 50
                 /\ targetSlides >= 1 /\ targetSlides <= NonSpaceCount) =>
        Len(result) >= targetSlides

\* C9: a text of 50 or more characters with no whitespace and no
\* punctuation, with a target n in 2..length, takes the undershoot
\* correction and comes back as exactly n fragments of at most
\* ceil(length / n) characters each.
C9_UnbrokenTextExactCount ==
    (pc = "done" /\ Len(text) >= 50
                 /\ \A i \in 1..Len(text) :
                        ~IsSpace(text[i]) /\ ~IsBoundary(text[i])
                            /\ ~IsTerminator(text[i])
                 /\ targetSlides >= 2 /\ targetSlides <= Len(text)) =>
        /\ Undershoots(text, targetSlides)
        /\ Len(result) = targetSlides
        /\ \A i \in 1..Len(result) :
               Len(result[i]) <= CeilDiv(Len(text), targetSlides)

\* the packed sub-chunks of the structural splitter before any of them is
\* dropped for being shorter than minChunkSize
PackedChunks(trimmedText, slideTarget) ==
    LET textLength == Len(trimmedText)
        target     == ClampedTarget(textLength, slideTarget)
        options    == SplitOptions(detectContentType(trimmedText),
                                   CeilDiv(textLength, target), textLength)
    IN  splitIntoAdvancedChunks(trimmedText,
                                [options EXCEPT !.minChunkSize = 0])

\* the chunks smartSplit goes on with after the drop
KeptChunks(trimmedText, slideTarget) ==
    SourceChunks(StructuralChunks(trimmedText,
                     ClampedTarget(Len(trimmedText), slideTarget)),
                 trimmedText)

\* C3: for a text of trimmed length >= 20, the fragments joined in order
\* hold all the non-whitespace characters of the source, except for packed
\* sub-chunks dropped for being shorter than minChunkSize: the packed
\* sub-chunks hold the whole content, and the result holds the whole
\* content of the sub-chunks that were kept.
C3_ContentComplete ==
    (pc = "done" /\ TrimmedLength >= 20 /\ targetSlides >= 1) =>
        /\ StripWhitespace(Flatten(PackedChunks(Trim(text), targetSlides)))
               = StripWhitespace(text)
        /\ StripWhitespace(Flatten(result))
               = StripWhitespace(Flatten(KeptChunks(Trim(text), targetSlides)))

\* the fragments frags[k..] are found one after the other, without
\* overlap, in src from index from on
RECURSIVE SpansInOrder(_, _, _, _)
SpansInOrder(frags, k, src, from) ==
    IF k > Len(frags) THEN TRUE
    ELSE LET n      == Len(frags[k])
             starts == {q \in from..(Len(src) - n + 1) :
                            SubSeq(src, q, q + n - 1) = frags[k]}
         IN  /\ starts # {}
             /\ SpansInOrder(frags, k + 1, src,
                    n + CHOOSE q \in starts : \A r \in starts : q <= r)

\* C4 as stated: the fragments, in list order, are non-overlapping spans of
\* the whitespace-collapsed source, in source reading order.
C4_SpansOfCollapsedSource ==
    pc = "done" =>
        SpansInOrder(result, 1, Trim(CollapseWhitespace(text)), 1)

\* C4 as amended: for a text that is not blank, the fragments with their
\* whitespace removed are, in list order, non-overlapping spans of the
\* source with its whitespace removed, in source reading order.
C4_SpansOfContent ==
    (pc = "done" /\ ~IsBlank(text)) =>
        SpansInOrder([i \in 1..Len(result) |-> StripWhitespace(result[i])],
                     1, StripWhitespace(text), 1)

\* a text split by the fallback splitter into more fragments than chunks
C4_Witness ==
    /\ pc = "done"
    /\ TrimmedLength >= ShortLength
    /\ Undershoots(Trim(text), targetSlides)
    /\ Len(result) > Len(KeptChunks(Trim(text), targetSlides))
    /\ Len(KeptChunks(Trim(text), targetSlides)) >= 2

\* the text is a run-on sentence: 1000 or more characters, letters in
\* words separated by single spaces, no punctuation
IsRunOnSentence(s) ==
    /\ Len(s) >= 1000
    /\ ~IsSpace(s[1]) /\ ~IsSpace(s[Len(s)])
    /\ \A i \in 1..Len(s) :
           /\ ~IsTerminator(s[i]) /\ s[i] \notin {",", ";", ":", NL, "\t"}
           /\ (IsSpace(s[i]) /\ i < Len(s)) => ~IsSpace(s[i+1])

LongestSentence(s) ==
    LET ends == {i \in 1..Len(s) : s[i] = "."}
        startOf(e) == IF \E q \in ends : q < e
                      THEN 2 + CHOOSE q \in ends :
                                   q < e /\ \A r \in ends : r < e => r <= q
                      ELSE 1
        lengths == {e - startOf(e) + 1 : e \in ends}
    IN  CHOOSE n \in lengths : \A m \in lengths : m <= n

\* the text is a narrative for target n: letters, single spaces and
\* periods only, every sentence closed by a period, the text neither a
\* list nor a quote nor technical, and every sentence at most half of
\* ceil(length / n) long
IsNarrative(s, n) ==
    /\ Len(s) >= 2
    /\ s[Len(s)] = "."
    /\ \A i \in 1..Len(s) :
           /\ s[i] \notin {NL, "\t", "!", "?", ",", ";", ":", "\""}
           /\ (s[i] = " ") => (i > 1 /\ s[i+1] \notin {" ", "."})
           /\ (s[i] = ".") => (i > 1 /\ s[i-1] \notin {" ", "."})
           /\ (s[i] = "." /\ i < Len(s)) => s[i+1] = " "
    /\ detectContentType(s) \in {"story", "general"}
    /\ 2 * LongestSentence(s) <= CeilDiv(Len(s), n)

\* every fragment ends with a sentence terminator
EndAtTerminator(frags) ==
    \A i \in 1..Len(frags) :
        Len(frags[i]) > 0 /\ IsTerminator(frags[i][Len(frags[i])])

----------------------------------------------------------------------------
(* optimizeForSlides: the chain of replacements, in the order of the code. *)

\* the length of the run of character c that ends at index i of s (0 when
\* s[i] is not c)
RunEndingAt(s, c, i) ==
    IF s[i] # c THEN 0
    ELSE i - (CHOOSE j \in 0..(i-1) :
                  /\ (j = 0 \/ s[j] # c)
                  /\ \A k \in (j+1)..i : s[k] = c)

\* the length of the whole run of character c that index i of s is in
RunLengthAt(s, c, i) ==
    IF s[i] # c THEN 0
    ELSE RunEndingAt(s, c, CHOOSE k \in i..Len(s) :
                               /\ (k = Len(s) \/ s[k+1] # c)
                               /\ \A j \in i..k : s[j] = c)

\* every run of c that is least or more long cut down to its first keep
\* characters: s.replace(/c{least,}/g, c repeated keep times)
CutRuns(s, c, least, keep) ==
    LET marked == [i \in 1..Len(s) |->
                      IF RunLengthAt(s, c, i) >= least
                             /\ RunEndingAt(s, c, i) > keep
                      THEN "" ELSE s[i]]
    IN  SelectSeq(marked, LAMBDA x : x # "")

\* only the first four periods of a run replaced by three: of a run of five
\* periods four are left
ReplaceDotRuns_FirstFour(s) ==
    LET marked == [i \in 1..Len(s) |->
                      IF RunEndingAt(s, ".", i) = 4 THEN "" ELSE s[i]]
    IN  SelectSeq(marked, LAMBDA x : x # "")

\* .replace(/[.]{3,}/g, '...')
ReplaceDotRuns(s) == CutRuns(s, ".", 3, 3)

\* the characters of the class of the first quote replacement, as the
\* source file holds it
DoubleQuoteClass == {"\""}

\* the characters of the class of the second quote replacement, as the
\* source file holds it
SingleQuoteClass == {"'"}

\* .replace(/[""]/g, '"').replace(/['']/g, "'")
NormalizeQuotes(s) ==
    [i \in 1..Len(s) |->
        IF s[i] \in DoubleQuoteClass THEN "\""
        ELSE IF s[i] \in SingleQuoteClass THEN "'"
        ELSE s[i]]

\* .replace(/\n{3,}/g, '\n\n')
ReplaceNewlineRuns(s) == CutRuns(s, NL, 3, 2)

optimizeForSlides(s) ==
    Trim(ReplaceNewlineRuns(NormalizeQuotes(ReplaceDotRuns(
        CollapseWhitespace(s)))))

----------------------------------------------------------------------------
(* Texts for optimizeForSlides: every string of up to MaxOptimizeLength    *)
(* characters over a letter, the whitespace characters, the period and the *)
(* curly and straight quotes.  A curly quote is written as its code point: *)
(* "U+201C" and "U+201D" are the left and right double curly quotes,       *)
(* "U+2018" and "U+2019" the left and right single ones; each stands for   *)
(* one character of the text.                                              *)

MaxOptimizeLength == 5

OptimizeAlphabet ==
    {"a", " ", NL, ".", "U+201C", "U+201D", "U+2018", "U+2019", "\""}

RECURSIVE StringsOver(_, _)
StringsOver(alphabet, n) ==
    IF n = 0 THEN {<<>>}
    ELSE {Append(t, c) : t \in StringsOver(alphabet, n - 1), c \in alphabet}

InitOptimize ==
    /\ text \in UNION {StringsOver(OptimizeAlphabet, n) :
                           n \in 0..MaxOptimizeLength}
    /\ targetSlides = 1
    /\ result = <<>>
    /\ pc = "call"
    /\ chunkOptions = DefaultOptions
    /\ StoreUntouched
    /\ forceStart = 0

\* the call optimizeForSlides(text)
OptimizeForSlides ==
    /\ pc = "call"
    /\ result' = optimizeForSlides(text)
    /\ pc' = "done"
    /\ UNCHANGED <<text, targetSlides, chunkOptions, forceStart, storeVars>>

\* the call optimizeForSlides on the text the first call returned
OptimizeAgain ==
    /\ pc = "done"
    /\ result' = optimizeForSlides(result)
    /\ pc' = "again"
    /\ UNCHANGED <<text, targetSlides, chunkOptions, forceStart, storeVars>>

NextOptimize == OptimizeForSlides \/ OptimizeAgain

SpecOptimize == InitOptimize /\ [][NextOptimize]_vars

----------------------------------------------------------------------------
(* Properties of optimizeForSlides.                                        *)

\* C11: normalizing the normalized text gives the normalized text again.
C11_Idempotent ==
    pc = "again" => result = optimizeForSlides(text)

\* a text with a run of five periods, normalized twice
C11_Witness ==
    /\ pc = "again"
    /\ Includes(text, <<".", ".", ".", ".", ".">>)
    /\ result = <<".", ".", ".">>

\* C12: a run of three or more newlines of the input, and a blank line
\* between two paragraphs, are two newlines in the normalized text.
C12_ParagraphBreaksKept ==
    (pc = "done" /\ \E i \in 2..(Len(text) - 2) :
                        /\ ~IsSpace(text[i-1])
                        /\ text[i] = NL /\ text[i+1] = NL
                        /\ \E k \in (i+2)..Len(text) :
                               /\ ~IsSpace(text[k])
                               /\ \A j \in (i+2)..(k-1) : text[j] = NL) =>
        Includes(result, <<NL, NL>>)

\* the left and right double and single curly quotes
CurlyQuotes == {"U+201C", "U+201D", "U+2018", "U+2019"}

\* C13: the normalized text holds no curly quote: every double curly quote
\* of the input is a straight double quote and every single curly quote a
\* straight single quote.
C13_NoCurlyQuotes ==
    pc = "done" => \A i \in 1..Len(result) : result[i] \notin CurlyQuotes

----------------------------------------------------------------------------
(* Texts for detectContentType: a lead that is or is not a list line, an   *)
(* optional straight double quote, an optional word that is or is not a    *)
(* technical word, up to MaxDetectSentences one-letter sentences that all  *)
(* end with the same terminator, and an optional unterminated tail.        *)

MaxDetectSentences == 7

\* list lines: a bullet, an indented bullet, a numbered item, a numbered
\* item and a bullet from the class of the source on a second line;
\* not list lines: a bullet or a number with no whitespace after it, a
\* bullet inside a line, an indented number
DetectLeads ==
    { <<>>,
      <<"-", " ">>,
      <<"\t", "*", " ">>,
      <<"1", ".", " ">>,
      <<"a", NL, "1", "2", ".", "\t">>,
      <<"a", NL, " ", "â", " ">>,
      <<"-", "x", " ">>,
      <<"1", ".", "x", " ">>,
      <<"a", " ", "-", " ">>,
      <<" ", "1", ".", " ">> }

DetectQuotes == { <<>>, <<"\"">> }

DetectWords ==
    { <<>>,
      <<"f", "u", "n", "c", "t", "i", "o", "n">>,
      <<"c", "l", "a", "s", "s">>,
      <<"A", "P", "I">>,
      <<"c", "o", "d", "e">>,
      <<"C", "o", "d", "e">>,
      <<"a", "p", "i">> }

\* k sentences "s" closed by terminator t, each followed by a space
RECURSIVE DetectSentences(_, _)
DetectSentences(k, t) ==
    IF k = 0 THEN <<>> ELSE DetectSentences(k - 1, t) \o <<"s", t, " ">>

InitDetect ==
    /\ \E lead \in DetectLeads, quote \in DetectQuotes, word \in DetectWords :
       \E k \in 0..MaxDetectSentences, t \in {".", "!"} :
       \E tail \in { <<>>, <<"t">> } :
           text = lead \o quote \o word \o <<" ">>
                      \o DetectSentences(k, t) \o tail
    /\ targetSlides = 1
    /\ result = <<>>
    /\ pc = "call"
    /\ chunkOptions = DefaultOptions
    /\ StoreUntouched
    /\ forceStart = 0

\* the call detectContentType(text)
DetectContentType ==
    /\ pc = "call"
    /\ result' = detectContentType(text)
    /\ pc' = "done"
    /\ UNCHANGED <<text, targetSlides, chunkOptions, forceStart, storeVars>>

NextDetect == DetectContentType

SpecDetect == InitDetect /\ [][NextDetect]_vars

----------------------------------------------------------------------------
(* Properties of detectContentType.  The rules are stated on the text, not *)
(* on the lines the function splits it into.                               *)

\* index p starts a line of s
StartsLine(s, p) == p = 1 \/ s[p-1] = NL

\* the list rule: some line starts with optional whitespace, a bullet and a
\* whitespace character, or with digits, a period and a whitespace character
ListRule(s) ==
    \E p \in 1..Len(s) :
        /\ StartsLine(s, p)
        /\ \/ \E k \in p..(Len(s) - 1) :
                  /\ \A j \in p..(k-1) : s[j] \in {" ", "\t"}
                  /\ IsBullet(s[k])
                  /\ s[k+1] \in {" ", "\t"}
           \/ \E k \in p..(Len(s) - 2) :
                  /\ \A j \in p..k : IsDigit(s[j])
                  /\ s[k+1] = "."
                  /\ s[k+2] \in {" ", "\t"}

\* the quote rule: a straight double quote and at most 3 sentences
QuoteRule(s) ==
    (\E i \in 1..Len(s) : s[i] = "\"") /\ Len(splitIntoSentences(s)) <= 3

\* the technical rule: one of the four technical words
TechnicalRule(s) ==
    \E w \in { <<"f", "u", "n", "c", "t", "i", "o", "n">>,
               <<"c", "l", "a", "s", "s">>,
               <<"A", "P", "I">>,
               <<"c", "o", "d", "e">> } :
        \E i \in 0..(Len(s) - Len(w)) : SubSeq(s, i + 1, i + Len(w)) = w

\* the story rule: more than 5 sentences and a period
StoryRule(s) ==
    Len(splitIntoSentences(s)) > 5 /\ \E i \in 1..Len(s) : s[i] = "."

\* C14: detectContentType returns one of the five labels, the one of the
\* first rule that the text satisfies in the order list, quote, technical,
\* story, and general only when the text satisfies none.
C14_FirstMatchWins ==
    pc = "done" =>
        /\ result \in {"list", "quote", "technical", "story", "general"}
        /\ ListRule(text) => result = "list"
        /\ (~ListRule(text) /\ QuoteRule(text)) => result = "quote"
        /\ (~ListRule(text) /\ ~QuoteRule(text) /\ TechnicalRule(text)) =>
               result = "technical"
        /\ (~ListRule(text) /\ ~QuoteRule(text) /\ ~TechnicalRule(text)
                /\ StoryRule(text)) => result = "story"
        /\ result = "general" =>
               (~ListRule(text) /\ ~QuoteRule(text) /\ ~TechnicalRule(text)
                    /\ ~StoryRule(text))

\* a text with a quote and a technical word and no list line, labelled quote
C14_Witness ==
    /\ pc = "done"
    /\ ~ListRule(text) /\ QuoteRule(text) /\ TechnicalRule(text)
    /\ result = "quote"

----------------------------------------------------------------------------
(* getReadingTime, getOptimalSlideCount and estimateSlideCount.            *)

\* the default of the wordsPerMinute parameter of getReadingTime
DefaultWordsPerMinute == 200

\* the default of the charsPerSlide parameter of estimateSlideCount
DefaultCharsPerSlide == 200

getReadingTime(s, wordsPerMinute) ==
    CeilDiv(Len(SplitOnWhitespace(s)), wordsPerMinute)

\* optimalCount after the switch on the content type
BaseSlideCount(contentType, textLength) ==
    CASE contentType = "list" ->
             Min2(5, Max2(2, CeilDiv(textLength, 150)))
      [] contentType = "story" ->
             Min2(6, Max2(3, CeilDiv(textLength, 200)))
      [] contentType = "technical" ->
             Min2(8, Max2(2, CeilDiv(textLength, 100)))
      [] contentType = "quote" -> 1
      [] OTHER -> Min2(5, Max2(2, CeilDiv(textLength, 180)))

\* the adjustment made from a reading time of 2 minutes on
ReadingTimeBump_FromTwo(readingTime, optimalCount) ==
    IF readingTime >= 2 THEN Min2(optimalCount + 1, 8) ELSE optimalCount

\* optimalCount after the adjustment for the reading time
ReadingTimeBump(readingTime, optimalCount) ==
    IF readingTime > 2 THEN Min2(optimalCount + 1, 8) ELSE optimalCount

getOptimalSlideCount(s) ==
    LET textLength == Len(Trim(s))
    IN  IF textLength < 50 THEN 1
        ELSE ReadingTimeBump(getReadingTime(s, DefaultWordsPerMinute),
                 BaseSlideCount(detectContentType(s), textLength))

estimateSlideCount(s, charsPerSlide) ==
    LET cleanText      == Trim(CollapseWhitespace(s))
        optimized      == optimizeForSlides(cleanText)
        slideTarget    == getOptimalSlideCount(optimized)
        chunks         == smartSplit(optimized, slideTarget)
        lengthEstimate == Max2(1, CeilDiv(Len(optimized), charsPerSlide))
    IN  IF cleanText = <<>> THEN 1
        ELSE Max2(Len(chunks), lengthEstimate)

----------------------------------------------------------------------------
(* Texts for the slide-count helpers: a lead that decides the content      *)
(* type, then words of one letter separated by single spaces, a few of     *)
(* them or about MaxOptimalWords, with or without a trailing space.        *)

MaxOptimalWords == 401

OptimalWordCounts ==
    {1, 8, 30, 70, 110, 150} \cup (MaxOptimalWords - 2)..MaxOptimalWords

OptimalWordLengths == {1, 4, 9}

\* n words of w letters separated by single spaces
WordsText(n, w) ==
    [i \in 1..(n * (w + 1) - 1) |-> IF i % (w + 1) = 0 THEN " " ELSE "x"]

OptimalTexts ==
    {lead \o WordsText(n, w) \o trailing :
         lead \in Leads, n \in OptimalWordCounts, w \in OptimalWordLengths,
         trailing \in { <<>>, <<" ">> }}

InitOptimal ==
    /\ text \in OptimalTexts
    /\ targetSlides = 1
    /\ result = <<>>
    /\ pc = "call"
    /\ chunkOptions = DefaultOptions
    /\ StoreUntouched
    /\ forceStart = 0

\* the call getOptimalSlideCount(text)
GetOptimalSlideCount ==
    /\ pc = "call"
    /\ result' = getOptimalSlideCount(text)
    /\ pc' = "done"
    /\ UNCHANGED <<text, targetSlides, chunkOptions, forceStart, storeVars>>

NextOptimal == GetOptimalSlideCount

SpecOptimal == InitOptimal /\ [][NextOptimal]_vars

\* the call estimateSlideCount(text)
EstimateSlideCount ==
    /\ pc = "call"
    /\ result' = estimateSlideCount(text, DefaultCharsPerSlide)
    /\ pc' = "done"
    /\ UNCHANGED <<text, targetSlides, chunkOptions, forceStart, storeVars>>

NextEstimate == EstimateSlideCount

SpecEstimate == InitOptimal /\ [][NextEstimate]_vars

----------------------------------------------------------------------------
(* Properties of the slide-count helpers.                                  *)

\* C15: estimateSlideCount(text) is the number of fragments smartSplit
\* returns for the normalized text with the target getOptimalSlideCount
\* gives for the normalized text.
C15_EstimateIsFragmentCount ==
    pc = "done" =>
        result = Len(smartSplit(optimizeForSlides(text),
                                getOptimalSlideCount(optimizeForSlides(text))))

\* clamp(lo..hi, x)
Clamp(lo, hi, x) == IF x < lo THEN lo ELSE IF x > hi THEN hi ELSE x

\* the base count of C16 for a content type and a trimmed length
ClaimedBaseCount(contentType, len) ==
    CASE contentType = "list"      -> Clamp(2, 5, CeilDiv(len, 150))
      [] contentType = "story"     -> Clamp(3, 6, CeilDiv(len, 200))
      [] contentType = "technical" -> Clamp(2, 8, CeilDiv(len, 100))
      [] contentType = "quote"     -> 1
      [] contentType = "general"   -> Clamp(2, 5, CeilDiv(len, 180))

\* the count of C16 for a text: the base count, plus 1 capped at 8 exactly
\* when the reading time of the text exceeds 2 minutes
ClaimedSlideCount(s) ==
    LET base == ClaimedBaseCount(detectContentType(s), Len(Trim(s)))
    IN  IF getReadingTime(s, 200) > 2
        THEN (IF base + 1 > 8 THEN 8 ELSE base + 1)
        ELSE base

\* C16 as stated: for every text getOptimalSlideCount returns the base
\* count of the content type, plus 1 capped at 8 exactly when the reading
\* time exceeds 2 minutes.
C16_OptimalCountEveryText ==
    pc = "done" => result = ClaimedSlideCount(text)

\* C16 as amended: the same for every text of trimmed length 50 or more;
\* for a shorter text getOptimalSlideCount returns 1.
C16_OptimalCountFromFifty ==
    pc = "done" =>
        result = IF TrimmedLength < 50 THEN 1 ELSE ClaimedSlideCount(text)

\* a technical text of more than 400 words whose count of 8 stays 8
C16_Witness ==
    /\ pc = "done"
    /\ detectContentType(text) = "technical"
    /\ getReadingTime(text, 200) > 2
    /\ ClaimedBaseCount("technical", TrimmedLength) = 8
    /\ result = 8

----------------------------------------------------------------------------
(* Texts for forceSplitByLength: every string of up to MaxForceLength      *)
(* characters over a letter, the space and the period, and long texts of   *)
(* two runs of letters with or without a separator between them, whose     *)
(* windows are longer than the boundary search looks back.  The target     *)
(* runs from -1 to MaxForceLength + 1.                                     *)

MaxForceLength == 6

ForceAlphabet == {"x", " ", "."}

ForceRunLengths == {1, 41, 50, 90}

ForceSeparators == { <<>>, <<" ">>, <<",", " ">>, <<" ", " ">> }

ForceTexts ==
    UNION {StringsOver(ForceAlphabet, n) : n \in 0..MaxForceLength}
        \cup {Run("x", p) \o sep \o Run("y", q) :
                  p \in ForceRunLengths, q \in ForceRunLengths,
                  sep \in ForceSeparators}

InitForce ==
    /\ text \in ForceTexts
    /\ targetSlides \in (-1)..(MaxForceLength + 1)
    /\ result = <<>>
    /\ pc = "call"
    /\ chunkOptions = DefaultOptions
    /\ StoreUntouched
    /\ forceStart = 0

\* the call forceSplitByLength(text, targetSlides)
ForceSplitByLength ==
    /\ pc = "call"
    /\ result' = forceSplitByLength(text, targetSlides)
    /\ pc' = "done"
    /\ UNCHANGED <<text, targetSlides, chunkOptions, forceStart, storeVars>>

NextForce == ForceSplitByLength

SpecForce == InitForce /\ [][NextForce]_vars

----------------------------------------------------------------------------
(* Properties of forceSplitByLength.                                       *)

\* C17: for a text with no whitespace and a target k with
\* 1 <= k <= length of the text, forceSplitByLength returns at least k
\* fragments.
C17_ForceMeetsTarget ==
    (pc = "done" /\ (\A i \in 1..Len(text) : ~IsSpace(text[i]))
                 /\ targetSlides >= 1 /\ targetSlides <= Len(text)) =>
        Len(result) >= targetSlides

\* C18: for a text that is not blank and every target, zero and negative
\* ones included, forceSplitByLength returns at least one fragment and
\* every fragment is non-empty with no whitespace at its ends; it returns
\* the empty list exactly for blank text.
C18_ForceFragmentsTrimmed ==
    pc = "done" =>
        /\ IsBlank(text) <=> result = <<>>
        /\ \A i \in 1..Len(result) :
               /\ Len(result[i]) >= 1
               /\ ~IsSpace(result[i][1])
               /\ ~IsSpace(result[i][Len(result[i])])

\* a text with whitespace around it, cut for a target of zero or less
C18_Witness ==
    /\ pc = "done"
    /\ targetSlides <= 0
    /\ ~IsBlank(text)
    /\ IsSpace(text[1]) /\ IsSpace(text[Len(text)])
    /\ result = <<Trim(text)>>

----------------------------------------------------------------------------
(* StorageService (services/TemplateService.ts): the current project and   *)
(* the list of recent projects.  A project is modelled by its id.  Each    *)
(* call runs to completion before the next one starts.  A call of          *)
(* AsyncStorage may fail; the service catches the failure where the code   *)
(* has a try/catch or goes through safeStorageOperation.                   *)

\* the number of projects the list is cut to
RecentLimit == 10

\* the projects are 1..MaxProjects
MaxProjects == 11

\* recentProjects.filter(p => p.id !== id)
WithoutProject(projects, id) == SelectSeq(projects, LAMBDA p : p # id)

\* getRecentProjects: the stored list, or [] when reading it fails
ReadRecentProjects(readOk) == IF readOk THEN recentProjects ELSE <<>>

\* the list with the project put at its head and nothing cut off
TrimmedProjects_NoLimit(projects, id) == <<id>> \o WithoutProject(projects, id)

\* trimmedProjects of addToRecentProjects: the project removed if it is
\* there, put at the head, and the list cut to its first 10 entries
TrimmedProjects(projects, id) ==
    LET filteredProjects == <<id>> \o WithoutProject(projects, id)
    IN  SubSeq(filteredProjects, 1, Min2(RecentLimit, Len(filteredProjects)))

\* the projects of the stored list
ListedProjects == {recentProjects[i] : i \in 1..Len(recentProjects)}

\* a project that was not stored before: the one after the last stored one
NewProjects ==
    LET stored == ListedProjects \cup {currentProject}
        last   == CHOOSE i \in stored : \A j \in stored : j <= i
    IN  IF last < MaxProjects THEN {last + 1} ELSE {}

\* the projects a save may name: a new project, the stored current project
\* (saved again) and the second project of the list (opened again)
SavableProjects ==
    NewProjects \cup ({currentProject} \ {NoProject})
        \cup (IF Len(recentProjects) < 2 THEN {} ELSE {recentProjects[2]})

\* the projects a delete may name: the head and the last project of the
\* list, and a project that is not in the list
DeletableProjects ==
    NewProjects
        \cup (IF recentProjects = <<>> THEN {}
              ELSE {recentProjects[1], recentProjects[Len(recentProjects)]})

InitStore ==
    /\ text = <<>>
    /\ targetSlides = 1
    /\ result = <<>>
    /\ pc = "call"
    /\ chunkOptions = DefaultOptions
    /\ StoreUntouched
    /\ forceStart = 0

\* the call saveCurrentProject(project): the project is written under
\* CURRENT_PROJECT, then addToRecentProjects reads the list, puts the
\* project at its head and writes the list back
SaveCurrentProject ==
    \E id \in SavableProjects :
    \E writeCurrentOk \in BOOLEAN, readOk \in BOOLEAN,
       writeRecentOk \in BOOLEAN :
        /\ currentProject' = IF writeCurrentOk THEN id ELSE currentProject
        /\ recentProjects' =
               IF writeCurrentOk /\ writeRecentOk
               THEN TrimmedProjects(ReadRecentProjects(readOk), id)
               ELSE recentProjects
        /\ lastCall' = IF writeCurrentOk /\ readOk /\ writeRecentOk
                       THEN "saved" ELSE "saveFailed"
        /\ UNCHANGED <<text, targetSlides, result, pc, chunkOptions,
                       forceStart>>

\* the call deleteRecentProject(projectId)
DeleteRecentProject ==
    \E id \in DeletableProjects :
    \E readOk \in BOOLEAN, writeOk \in BOOLEAN :
        /\ recentProjects' =
               IF writeOk
               THEN WithoutProject(ReadRecentProjects(readOk), id)
               ELSE recentProjects
        /\ lastCall' = IF readOk /\ writeOk THEN "deleted" ELSE "deleteFailed"
        /\ UNCHANGED <<currentProject, text, targetSlides, result, pc,
                       chunkOptions, forceStart>>

NextStore == SaveCurrentProject \/ DeleteRecentProject

SpecStore == InitStore /\ [][NextStore]_vars

----------------------------------------------------------------------------
(* Properties of the list of recent projects.                              *)

\* no project is in the list twice
NoProjectTwice(projects) ==
    \A i \in 1..Len(projects) : \A j \in 1..Len(projects) :
        projects[i] = projects[j] => i = j

----------------------------------------------------------------------------
(* Texts and options for splitIntoAdvancedChunks: up to MaxChunkUnits      *)
(* units, each a word of 2 or 5 copies of its own letter followed by an    *)
(* ending (a period, a period and a space, a space, a blank line), with    *)
(* every combination of the three flags, a minChunkSize of 0, 4 or 20     *)
(* characters and a maxChunkSize of 6, 9 or 15 characters.                 *)

MaxChunkUnits == 3

ChunkWordLengths == {2, 5}

RECURSIVE ChunkTexts(_)
ChunkTexts(k) ==
    IF k = 0 THEN {<<>>}
    ELSE {t \o Run(Letters[k], n) \o e :
              t \in ChunkTexts(k-1), n \in ChunkWordLengths, e \in Endings}

\* the option records, sizes in tenths of a character
ChunkOptions ==
    [preserveParagraphs : BOOLEAN,
     respectSentences   : BOOLEAN,
     respectWords       : BOOLEAN,
     minChunkSize       : {0, 40, 200},
     maxChunkSize       : {60, 90, 150}]

InitChunks ==
    /\ text \in UNION {ChunkTexts(k) : k \in 0..MaxChunkUnits}
    /\ chunkOptions \in ChunkOptions
    /\ targetSlides = 1
    /\ result = <<>>
    /\ pc = "call"
    /\ StoreUntouched
    /\ forceStart = 0

\* the call splitIntoAdvancedChunks(text, maxChars, chunkOptions)
SplitIntoAdvancedChunks ==
    /\ pc = "call"
    /\ result' = splitIntoAdvancedChunks(text, chunkOptions)
    /\ pc' = "done"
    /\ UNCHANGED <<text, targetSlides, chunkOptions, forceStart, storeVars>>

NextChunks == SplitIntoAdvancedChunks

SpecChunks == InitChunks /\ [][NextChunks]_vars

----------------------------------------------------------------------------
(* Properties of splitIntoAdvancedChunks.                                  *)

\* s is paragraph a, a blank line, and paragraph b: neither paragraph is
\* empty, holds a newline, or starts or ends with whitespace
IsTwoParagraphs(s, a, b) ==
    /\ s = a \o <<NL, NL>> \o b
    /\ a # <<>> /\ b # <<>>
    /\ ~IsSpace(a[1]) /\ ~IsSpace(a[Len(a)])
    /\ ~IsSpace(b[1]) /\ ~IsSpace(b[Len(b)])
    /\ \A i \in 1..Len(a) : a[i] # NL
    /\ \A i \in 1..Len(b) : b[i] # NL

\* the letters of s
LettersOf(s) ==
    {s[i] : i \in 1..Len(s)} \cap {Letters[k] : k \in 1..Len(Letters)}

\* C20: with preserveParagraphs set, for a text made of paragraph A, a
\* blank line and paragraph B with length(A) <= maxChunkSize and
\* length(A) + length(B) > maxChunkSize, the first fragment is exactly A
\* and no fragment holds text of both A and B.
C20_ParagraphsSplitFirst ==
    \A i \in 1..(Len(text) - 2) :
        LET a == SubSeq(text, 1, i - 1)
            b == SubSeq(text, i + 2, Len(text))
        IN  (pc = "done" /\ chunkOptions.preserveParagraphs
                 /\ text[i] = NL /\ text[i+1] = NL
                 /\ IsTwoParagraphs(text, a, b)
                 /\ 10 * Len(a) <= chunkOptions.maxChunkSize
                 /\ 10 * (Len(a) + Len(b)) > chunkOptions.maxChunkSize) =>
                /\ result # <<>>
                /\ result[1] = a
                /\ \A k \in 1..Len(result) :
                       \/ LettersOf(result[k]) \cap LettersOf(a) = {}
                       \/ LettersOf(result[k]) \cap LettersOf(b) = {}

\* the whitespace-collapsed, trimmed input of the call (cleanText)
CleanInput == Trim(CollapseWhitespace(text))

\* the call took the splitting path: the input is longer than maxChunkSize
IsOversized == 10 * Len(CleanInput) > chunkOptions.maxChunkSize

\* C21: when an oversized paragraph is split by sentences and every
\* sentence is at most maxChunkSize long, every fragment returned is at
\* most maxChunkSize long.
C21_SentencePackingBounded ==
    (/\ pc = "done"
     /\ chunkOptions.respectSentences
     /\ IsOversized
     /\ \A k \in 1..Len(splitIntoSentences(CleanInput)) :
            10 * Len(Trim(splitIntoSentences(CleanInput)[k]))
                <= chunkOptions.maxChunkSize)
        => \A k \in 1..Len(result) :
               10 * Len(result[k]) <= chunkOptions.maxChunkSize

\* C22 as stated: every fragment returned is at least minChunkSize long,
\* whichever path the call took.
C22_MinOnEveryPath ==
    pc = "done"
        => \A k \in 1..Len(result) :
               10 * Len(result[k]) >= chunkOptions.minChunkSize

\* C22: every fragment returned for an input longer than maxChunkSize is
\* at least minChunkSize long; shorter fragments are dropped.
C22_MinOnSplitPath ==
    (pc = "done" /\ IsOversized)
        => \A k \in 1..Len(result) :
               10 * Len(result[k]) >= chunkOptions.minChunkSize

\* an oversized input of which some fragments were kept and some dropped
C22_Witness ==
    /\ pc = "done"
    /\ IsOversized
    /\ chunkOptions.minChunkSize > 0
    /\ result # <<>>
    /\ Len(result) < Len(splitIntoAdvancedChunks(text,
                             [chunkOptions EXCEPT !.minChunkSize = 0]))

\* r is s with its whitespace normalised: the same words in the same
\* order, one space between neighbours, nothing at either end
IsNormalizedFormOf(r, s) ==
    /\ \A i \in 1..Len(r) : IsSpace(r[i]) => r[i] = " "
    /\ \A i \in 1..(Len(r) - 1) : ~(r[i] = " " /\ r[i+1] = " ")
    /\ r # <<>> => (r[1] # " " /\ r[Len(r)] # " ")
    /\ SplitOnChar(r, " ") = SplitOnWhitespace(Trim(s))

\* C23: an input whose whitespace-collapsed form is at most maxChunkSize
\* long comes back as the one-element list holding that form, whatever the
\* flags and minChunkSize are.
C23_ShortInputReturnedWhole ==
    (pc = "done" /\ ~IsOversized)
        => /\ Len(result) = 1
           /\ IsNormalizedFormOf(result[1], text)

\* a short input with whitespace to collapse, shorter than minChunkSize
C23_Witness ==
    /\ pc = "done"
    /\ ~IsOversized
    /\ Len(result) = 1
    /\ result[1] # text
    /\ 0 < Len(result[1])
    /\ 10 * Len(result[1]) < chunkOptions.minChunkSize

\* the first word of fragment c
FirstWord(c) == SplitOnChar(c, " ")[1]

\* C24: with respectSentences off and respectWords on, and every word of
\* the oversized input at most maxChunkSize long, every fragment is at most
\* maxChunkSize long, the fragments are spans of the collapsed input in
\* input order, and (nothing being dropped) no fragment could have taken
\* the first word of the next one.
C24_WordPackingBounded ==
    (/\ pc = "done"
     /\ ~chunkOptions.respectSentences
     /\ chunkOptions.respectWords
     /\ IsOversized
     /\ \A k \in 1..Len(SplitOnWhitespace(CleanInput)) :
            10 * Len(SplitOnWhitespace(CleanInput)[k])
                <= chunkOptions.maxChunkSize)
        => /\ \A k \in 1..Len(result) :
                  10 * Len(result[k]) <= chunkOptions.maxChunkSize
           /\ SpansInOrder(result, 1, CleanInput, 1)
           /\ chunkOptions.minChunkSize = 0
                  => \A k \in 1..(Len(result) - 1) :
                         10 * (Len(result[k]) + 1 + Len(FirstWord(result[k+1])))
                             > chunkOptions.maxChunkSize

\* a word-packed result with a fragment of several words filling
\* maxChunkSize exactly
C24_Witness ==
    /\ pc = "done"
    /\ ~chunkOptions.respectSentences
    /\ chunkOptions.respectWords
    /\ IsOversized
    /\ Len(result) >= 2
    /\ \E k \in 1..Len(result) :
           /\ 10 * Len(result[k]) = chunkOptions.maxChunkSize
           /\ Len(SplitOnChar(result[k], " ")) >= 2

----------------------------------------------------------------------------
(* forceSplitByLength one loop iteration at a time: the call enters the    *)
(* loop with start = 0 (or returns [] for a blank text), every iteration   *)
(* cuts one window and moves start to its end, and the loop is left when   *)
(* start has reached the end of the trimmed text.  pc is "loop" while the  *)
(* call is inside the while statement.                                     *)

\* idealSize of the call under way
IdealSize ==
    Max2(1, CeilDiv(Len(Trim(text)), Max2(1, targetSlides)))

InitForceLoop ==
    /\ text \in ForceTexts
    /\ targetSlides \in (-1)..(MaxForceLength + 1)
    /\ result = <<>>
    /\ pc = "call"
    /\ chunkOptions = DefaultOptions
    /\ StoreUntouched
    /\ forceStart = 0

\* lines 381-390: the guard on the blank text, then the loop is entered
ForceEnter ==
    /\ pc = "call"
    /\ pc' = IF Trim(text) = <<>> THEN "done" ELSE "loop"
    /\ result' = <<>>
    /\ forceStart' = 0
    /\ UNCHANGED <<text, targetSlides, chunkOptions, storeVars>>

\* lines 392-424: one iteration of the while loop
ForceWindow ==
    /\ pc = "loop"
    /\ forceStart < Len(Trim(text))
    /\ LET end   == WindowEnd(Trim(text), forceStart, IdealSize)
           chunk == Trim(SubSeq(Trim(text), forceStart + 1, end))
       IN  /\ result' = IF Len(chunk) > 0 THEN Append(result, chunk)
                                          ELSE result
           /\ forceStart' = end
    /\ UNCHANGED <<text, targetSlides, pc, chunkOptions, storeVars>>

\* lines 392 and 426: the loop test fails and the function returns
ForceReturn ==
    /\ pc = "loop"
    /\ forceStart >= Len(Trim(text))
    /\ result' = IF Len(result) > 0 THEN result ELSE <<Trim(text)>>
    /\ pc' = "done"
    /\ UNCHANGED <<text, targetSlides, chunkOptions, forceStart, storeVars>>

NextForceLoop == ForceEnter \/ ForceWindow \/ ForceReturn

SpecForceLoop == InitForceLoop /\ [][NextForceLoop]_vars

\* Texts for the check that every call returns: every string of up to
\* MaxTerminateLength characters over the letter, the space and the
\* period, and four texts of two runs of letters; the target runs from -1
\* to MaxTerminateLength + 1.
MaxTerminateLength == 4

TerminateTexts ==
    UNION {StringsOver(ForceAlphabet, n) : n \in 0..MaxTerminateLength}
        \cup {Run("x", 4) \o sep \o Run("y", 5) : sep \in ForceSeparators}

InitForceTerminate ==
    /\ text \in TerminateTexts
    /\ targetSlides \in (-1)..(MaxTerminateLength + 1)
    /\ result = <<>>
    /\ pc = "call"
    /\ chunkOptions = DefaultOptions
    /\ StoreUntouched
    /\ forceStart = 0

\* the call is not suspended: a started call runs its next step
SpecForceLoopFair ==
    InitForceTerminate /\ [][NextForceLoop]_vars /\ WF_vars(NextForceLoop)

----------------------------------------------------------------------------
(* Properties of forceSplitByLength (continued).                           *)

\* C25: in an iteration whose raw end point e = start + idealSize is
\* strictly inside the trimmed text, the loop goes on right after the
\* boundary character of highest index among the positions
\* max(start, e - 40) .. e - 1, and at e when none of them holds one.
\* (Positions count from 0; Trim(text)[i + 1] is the character at i.)
C25_BreakAfterLastBoundary ==
    [][(/\ pc = "loop"
        /\ pc' = "loop"
        /\ forceStart + IdealSize < Len(Trim(text)))
          => LET e == forceStart + IdealSize
                 boundaries ==
                     {i \in Max2(forceStart, e - 40)..(e - 1) :
                          Trim(text)[i + 1] \in {" ", ".", ",", ";", ":", NL}}
             IN  IF boundaries = {}
                 THEN forceStart' = e
                 ELSE /\ forceStart' - 1 \in boundaries
                      /\ \A i \in boundaries : i <= forceStart' - 1]_vars

\* the first window was cut short after the later of two boundary
\* characters
C25_Witness ==
    /\ pc = "loop"
    /\ Len(result) = 1
    /\ 1 < forceStart
    /\ forceStart < IdealSize
    /\ IdealSize < Len(Trim(text))
    /\ IsBoundary(Trim(text)[forceStart])
    /\ \E i \in 1..(forceStart - 1) : IsBoundary(Trim(text)[i])

\* C26: the fragments are consecutive slices of the trimmed text, in
\* order, and together they hold every character of it that is not
\* whitespace, once each.
C26_ForceLosesNothing ==
    pc = "done"
        => /\ SpansInOrder(result, 1, Trim(text), 1)
           /\ StripWhitespace(Flatten(result)) = StripWhitespace(Trim(text))

\* three fragments or more, with whitespace dropped at a break
C26_Witness ==
    /\ pc = "done"
    /\ Len(result) >= 3
    /\ Len(Flatten(result)) < Len(Trim(text))

\* C27: every call returns, and every iteration of the loop moves start
\* forward by at least one character.
C27_ForceTerminates ==
    /\ <>(pc = "done")
    /\ [][(pc = "loop" /\ pc' = "loop") => forceStart' > forceStart]_vars

\* a call with more slides asked for than the text has characters has
\* returned after several iterations
C27_Witness ==
    /\ pc = "done"
    /\ targetSlides > Len(Trim(text))
    /\ forceStart = Len(Trim(text))
    /\ Len(result) >= 2

\* C28: every fragment is at most
\* max(1, ceil(length(trimmed text) / max(1, k))) characters long.
C28_ForceFragmentsBounded ==
    pc = "done"
        => \A k \in 1..Len(result) :
               Len(result[k])
                   <= Max2(1, CeilDiv(Len(Trim(text)), Max2(1, targetSlides)))

\* a result with a fragment of the full idealSize and a shorter one that
\* ends with a boundary character
C28_Witness ==
    /\ pc = "done"
    /\ Len(result) >= 2
    /\ IdealSize >= 3
    /\ \E k \in 1..Len(result) : Len(result[k]) = IdealSize
    /\ \E k \in 1..(Len(result) - 1) :
           /\ Len(result[k]) < IdealSize - 1
           /\ IsBoundary(result[k][Len(result[k])])

----------------------------------------------------------------------------
(* Properties of smartSplit (continued).                                   *)

\* C29: when the structural splitter returns fewer fragments than the
\* target n, every fragment of the result is at most ceil(L / n)
\* characters long, L being the length of the trimmed text.
C29_UndershootFragmentsBounded ==
    (/\ pc = "done"
     /\ TrimmedLength >= VeryShortLength
     /\ Undershoots(Trim(text), targetSlides))
        => \A k \in 1..Len(result) :
               Len(result[k]) <= CeilDiv(TrimmedLength, targetSlides)

\* an undershoot corrected into several fragments, one of them of the
\* full ceil(L / n) characters, out of a source chunk longer than that
C29_Witness ==
    /\ pc = "done"
    /\ TrimmedLength >= VeryShortLength
    /\ Undershoots(Trim(text), targetSlides)
    /\ Len(result) >= 2
    /\ \E k \in 1..Len(result) :
           Len(result[k]) = CeilDiv(TrimmedLength, targetSlides)
    /\ \E c \in 1..Len(SourceChunks(StructuralChunks(Trim(text), targetSlides),
                                    Trim(text))) :
           Len(SourceChunks(StructuralChunks(Trim(text), targetSlides),
                            Trim(text))[c])
               > CeilDiv(TrimmedLength, targetSlides)

\* C30: for a text of trimmed length 20 or more and a target of 1, the
\* result is the one fragment holding the trimmed text with every run of
\* whitespace collapsed to a single space.
C30_TargetOneReturnsWhole ==
    (pc = "done" /\ TrimmedLength >= VeryShortLength /\ targetSlides = 1)
        => /\ Len(result) = 1
           /\ IsNormalizedFormOf(result[1], text)

\* a text of 20 characters or more holding a blank line or a double
\* space, returned as one fragment for the target 1
C30_Witness ==
    /\ pc = "done"
    /\ TrimmedLength >= VeryShortLength
    /\ targetSlides = 1
    /\ Len(result) = 1
    /\ Len(result[1]) < TrimmedLength

====
